---- MODULE Spec2Model ----
(***************************************************************************)
(* Model of the browser client's continuous voice interaction             *)
(* (RobotoApp in static/js/app.js): recognition device lifecycle,         *)
(* mute/unmute, restart timers, silence-based utterance batching, the     *)
(* voice-triggered chat exchange, speech output, and the typed-message    *)
(* sendMessage retry loop.                                                *)
(*                                                                         *)
(* Time is discrete: one tick is 500 ms, the greatest common divisor of   *)
(* the setTimeout delays of the voice code (500, 1000, 1500, 2000 ms).    *)
(* A timer whose remaining delay is 0 is due and fires before time        *)
(* advances; due timers and device events interleave freely.              *)
(*                                                                         *)
(* Handlers are operators from an application state record to the state   *)
(* after the handler has run to its end (or to its first await).          *)
(***************************************************************************)
EXTENDS Integers, Sequences, FiniteSets, Bags, TLC

VARIABLES
    speechRecognition,  \* "none" | "device": this.speechRecognition (null or the device handle)
    isMuted,            \* this.isMuted
    isListeningActive,  \* this.isListeningActive
    isSpeaking,         \* this.isSpeaking
    ttsEnabled,         \* this.ttsEnabled
    dev,                \* recognition device: "idle" | "running" | "stopping" | "ending"
    voiceBuffer,        \* this.voiceBuffer: sequence of [text, confidence]
    silenceTimeout,     \* ticks left on this.silenceTimeout, NoTimer when none is pending
    timers,             \* bag of pending restart timers [kind, rem]
    fetches,            \* number of voice-triggered /api/chat requests in flight
    synth,              \* speechSynthesis queue, head is the utterance playing: [src, started]
    cancelled,          \* utterances removed by speechSynthesis.cancel() whose handler has not run yet
    indicator,          \* #listeningIndicator: "absent" | "ready" | "listening" | "processing" | "speaking" | "interim"
    shown,              \* notifications shown by the last step: sequence of [msg, type]
    chatLog,            \* chat messages appended by the last step: sequence of [text, isUser]
    arrived,            \* history: transcripts passed to processFinalTranscript since the last flush
    noSpeechAge,        \* history: ticks since a 'no-speech' error reported while unmuted, NoAge once restarted
    noSpeechNoted,      \* history: a recognition error notification was shown in that window
    terminalErr,        \* history: a terminal device error forced mute and the user has not unmuted since
    mutedMid,           \* history: the user muted while a voice exchange was in flight or its reply was spoken, and has not unmuted since
    unmutedSpeaking,    \* history: the user unmuted while isSpeaking, and isSpeaking has not been cleared since
    starts,             \* history: device starts since the last recognition result or mute toggle, NoCount while not observed
    voiceSent,          \* history: voice-triggered requests issued since a reply was last handled, NoCount while not observed
    sendPc,             \* sendMessage: "idle" | "fetch" | "backoff"
    retryCount,         \* sendMessage: retryCount
    backoff,            \* sendMessage: ticks left of the wait before the next attempt
    requests,           \* sendMessage: /api/chat requests issued by the current call
    sendLog,            \* sendMessage: outcomes of the attempts of the current call
    typing,             \* the 'Roboto is thinking...' placeholder is in the chat
    sendChat,           \* chat messages appended by the current sendMessage call
    sendNotes,          \* notifications shown by the current sendMessage call
    tasks,              \* this.tasks: sequence of [id, done]
    backend,            \* the task list of the backend: sequence of [id, done]
    nextId,             \* the id the backend gives to the next task it creates
    inflight,           \* requests to the other endpoints: set of [n, op, id, chain, state, outcome, reply]
    opShown,            \* notifications shown by the last step of an endpoint operation: sequence of [msg, type]
    isListening,        \* chat-fix.js: isListening
    recognition,        \* chat-fix.js: recognition, "none" | "device"
    recDev,             \* chat-fix.js: the device behind recognition: "idle" | "starting" | "running" | "stopping" | "halting"
    restartTimers,      \* chat-fix.js: pending 100 ms restart timers set by recognition.onend
    chatInput,          \* chat-fix.js: chatInput.value as dictation leaves it: "" | "interim" | "final"
    submitTimers,       \* chat-fix.js: pending 500 ms submit timers set by recognition.onresult
    fixFetches,         \* chat-fix.js: /api/chat requests of the submit handler in flight
    probing,            \* chat-fix.js: a startSecureSpeechRecognition call is waiting for getUserMedia
    stoppedSince,       \* history: stopSpeechRecognition() has run and the user has not pressed start since
    erroredSince        \* history: an error event was reported and the end event that follows it has not been

vars == <<speechRecognition, isMuted, isListeningActive, isSpeaking, ttsEnabled, dev,
          voiceBuffer, silenceTimeout, timers, fetches, synth, cancelled, indicator,
          shown, chatLog, arrived, noSpeechAge, noSpeechNoted, terminalErr, mutedMid, unmutedSpeaking,
          starts, voiceSent, sendPc, retryCount, backoff, requests, sendLog, typing, sendChat, sendNotes,
          tasks, backend, nextId, inflight, opShown,
          isListening, recognition, recDev, restartTimers, chatInput, submitTimers, fixFetches, probing,
                stoppedSince, erroredSince>>

taskVars == <<tasks, backend, nextId, inflight, opShown>>

fixVars == <<isListening, recognition, recDev, restartTimers, chatInput, submitTimers, fixFetches, probing,
                stoppedSince, erroredSince>>

sendVars == <<sendPc, retryCount, backoff, requests, sendLog, typing, sendChat, sendNotes>>

----------------------------------------------------------------------------
(* Bounds of the model *)

MaxBuf == 2         \* fragments buffered in voiceBuffer
MaxTimers == 2      \* restart timers pending at once
MaxInFlight == 2    \* voice-triggered requests in flight
MaxRequests == 2
MaxTaskId == 2
MaxTasks == 3
MaxRestartTimers == 2
MaxSubmitTimers == 2
MaxSynth == 2       \* utterances queued in, or cancelled from, speechSynthesis

(* Program constants *)

voiceActivationSensitivity == 7     \* 0.7, confidences are in tenths
MinTextLength == 2                  \* combinedText.length > 2
SilenceTicks == 3                   \* 1500 ms
EndRestartTicks == 1                \* 500 ms, handleSpeechEnd
NoSpeechTicks == 2                  \* 1000 ms, handleSpeechError 'no-speech'
AbortedTicks == 1                   \* 500 ms, handleSpeechError 'aborted'
OtherErrorTicks == 4                \* 2000 ms, handleSpeechError else branch
InitTicks == 2                      \* 1000 ms, init auto-start
ResumeTicks == 1                    \* 500 ms, resumeContinuousListening / resumeListeningAfterResponse
maxRetries == 3                     \* sendMessage
maxRestartAttempts == 10            \* constructor

NoTimer == 0 - 1
NoAge == 0 - 1
NoCount == 0 - 1

----------------------------------------------------------------------------
(* Text: a string is a sequence of one-character strings *)

RECURSIVE TrimLeft(_)
TrimLeft(t) == IF t # <<>> /\ Head(t) = " " THEN TrimLeft(Tail(t)) ELSE t

RECURSIVE TrimRight(_)
TrimRight(t) ==
    IF t # <<>> /\ t[Len(t)] = " " THEN TrimRight(SubSeq(t, 1, Len(t) - 1)) ELSE t

\* String.prototype.trim
Trim(t) == TrimRight(TrimLeft(t))


RECURSIVE JoinSpaces(_)
\* Array.prototype.join(' ')
JoinSpaces(ts) ==
    IF ts = <<>> THEN <<>>
    ELSE IF Len(ts) = 1 THEN Head(ts)
    ELSE Head(ts) \o <<" ">> \o JoinSpaces(Tail(ts))

RECURSIVE SumConfidence(_)
\* voiceBuffer.reduce((sum, item) => sum + item.confidence, 0)
SumConfidence(buf) ==
    IF buf = <<>> THEN 0 ELSE Head(buf).confidence + SumConfidence(Tail(buf))

Texts(buf) == [i \in 1..Len(buf) |-> buf[i].text]

\* getLastConfidence(): the fallback confidence 0.8
getLastConfidence == 8

----------------------------------------------------------------------------
(* The application state the voice handlers read and write *)

S == [speechRecognition |-> speechRecognition, isMuted |-> isMuted,
      isListeningActive |-> isListeningActive, isSpeaking |-> isSpeaking,
      ttsEnabled |-> ttsEnabled, dev |-> dev, voiceBuffer |-> voiceBuffer,
      silenceTimeout |-> silenceTimeout, timers |-> timers, fetches |-> fetches,
      synth |-> synth, cancelled |-> cancelled, indicator |-> indicator,
      shown |-> <<>>, chatLog |-> <<>>, arrived |-> arrived]

Commit(s) ==
    /\ speechRecognition' = s.speechRecognition
    /\ isMuted' = s.isMuted
    /\ isListeningActive' = s.isListeningActive
    /\ isSpeaking' = s.isSpeaking
    /\ ttsEnabled' = s.ttsEnabled
    /\ dev' = s.dev
    /\ voiceBuffer' = s.voiceBuffer
    /\ silenceTimeout' = s.silenceTimeout
    /\ timers' = s.timers
    /\ fetches' = s.fetches
    /\ synth' = s.synth
    /\ cancelled' = s.cancelled
    /\ indicator' = s.indicator
    /\ shown' = s.shown
    /\ chatLog' = s.chatLog
    /\ arrived' = s.arrived

Timer(kind, rem) == [kind |-> kind, rem |-> rem]

\* setTimeout(callback, rem * 500)
setTimeout(s, kind, rem) ==
    [s EXCEPT !.timers = @ (+) SetToBag({Timer(kind, rem)})]

showNotification(s, msg, type) ==
    [s EXCEPT !.shown = Append(@, [msg |-> msg, type |-> type])]

addChatMessage(s, text, isUser) ==
    [s EXCEPT !.chatLog = Append(@, [text |-> text, isUser |-> isUser])]

updateListeningIndicator(s, listening, customText) ==
    IF s.indicator = "absent" THEN [s EXCEPT !.indicator = "ready"]
    ELSE IF customText # "" THEN [s EXCEPT !.indicator = customText]
    ELSE IF listening THEN [s EXCEPT !.indicator = "listening"]
    ELSE [s EXCEPT !.indicator = "ready"]

showVoiceProcessing(s, show) ==
    IF s.indicator = "absent" THEN s
    ELSE IF show THEN [s EXCEPT !.indicator = "processing"]
    ELSE updateListeningIndicator(s, s.isListeningActive, "")

\* updateInterimTranscript that starts the pending silence timer anew
updateInterimTranscriptResetsTimer(s) ==
    LET s1 == IF s.silenceTimeout = NoTimer THEN s ELSE [s EXCEPT !.silenceTimeout = SilenceTicks]
    IN  IF s1.indicator = "absent" THEN s1 ELSE [s1 EXCEPT !.indicator = "interim"]

updateInterimTranscript(s) ==
    IF s.indicator = "absent" THEN s ELSE [s EXCEPT !.indicator = "interim"]

clearInterimTranscript(s) ==
    IF s.indicator = "absent" THEN s ELSE [s EXCEPT !.indicator = "listening"]

----------------------------------------------------------------------------
(* The recognition device as the client drives it *)

\* SpeechRecognition.start(): throws unless the device is idle
CanStart(d) == d = "idle"

\* SpeechRecognition.stop(): a running device stops and reports end later
DeviceStop(d) == IF d = "running" THEN "stopping" ELSE d

startContinuousListening(s) ==
    IF s.speechRecognition = "none" \/ s.isListeningActive THEN s
    ELSE IF CanStart(s.dev)
         THEN [s EXCEPT !.dev = "running", !.isListeningActive = TRUE]
         ELSE showNotification(s, "Could not start microphone", "error")

pauseContinuousListening(s) ==
    IF s.speechRecognition # "none" /\ s.isListeningActive
    THEN updateListeningIndicator(
             [s EXCEPT !.dev = DeviceStop(@), !.isListeningActive = FALSE], FALSE, "")
    ELSE s

resumeContinuousListening(s) ==
    IF s.isMuted \/ s.isListeningActive THEN s
    ELSE setTimeout(s, "resumeInner", ResumeTicks)

\* the callback of the timer set by resumeContinuousListening
resumeInnerCallback(s) ==
    IF ~s.isMuted /\ ~s.isListeningActive THEN startContinuousListening(s) ELSE s

\* the callback of the auto-start timer set by init
initCallback(s) ==
    IF ~s.isMuted THEN startContinuousListening(s) ELSE s

toggleMute(s) ==
    LET s1 == [s EXCEPT !.isMuted = ~@]
        s2 == IF s1.isMuted THEN pauseContinuousListening(s1)
              ELSE resumeContinuousListening(s1)
    IN  showNotification(s2,
            IF s2.isMuted THEN "Speech recognition muted" ELSE "Speech recognition active",
            "info")

\* continuousListening is true from init on; voiceConversationMode is not needed
resumeListeningAfterResponse(s) == setTimeout(s, "resumeOuter", ResumeTicks)

\* handleSpeechEnd that schedules no restart
handleSpeechEndNoRestart(s) ==
    updateListeningIndicator([s EXCEPT !.isListeningActive = FALSE], FALSE, "")

handleSpeechEnd(s) ==
    LET s1 == updateListeningIndicator([s EXCEPT !.isListeningActive = FALSE], FALSE, "")
    IN  IF ~s1.isMuted THEN setTimeout(s1, "start", EndRestartTicks) ELSE s1

TerminalErrors == {"audio-capture", "not-allowed"}
DeviceErrors == {"no-speech", "aborted", "network"} \cup TerminalErrors

\* handleSpeechError with 'no-speech' taken for a terminal error
handleSpeechErrorNoSpeechTerminal(s, error) ==
    LET s1 == updateListeningIndicator([s EXCEPT !.isListeningActive = FALSE], FALSE, "")
    IN  IF error \in {"no-speech", "audio-capture", "not-allowed"}
        THEN [showNotification(s1, "Microphone access denied", "error")
                 EXCEPT !.isMuted = TRUE]
        ELSE IF error = "aborted"
        THEN IF ~s1.isMuted THEN setTimeout(s1, "start", AbortedTicks) ELSE s1
        ELSE IF ~s1.isMuted THEN setTimeout(s1, "start", OtherErrorTicks) ELSE s1

handleSpeechError(s, error) ==
    LET s1 == updateListeningIndicator([s EXCEPT !.isListeningActive = FALSE], FALSE, "")
    IN  IF error = "no-speech"
        THEN IF ~s1.isMuted THEN setTimeout(s1, "start", NoSpeechTicks) ELSE s1
        ELSE IF error = "aborted"
        THEN IF ~s1.isMuted THEN setTimeout(s1, "start", AbortedTicks) ELSE s1
        ELSE IF error = "audio-capture"
        THEN [showNotification(s1, "Microphone access denied", "error")
                 EXCEPT !.isMuted = TRUE]
        ELSE IF error = "not-allowed"
        THEN [showNotification(s1, "Microphone permission denied", "error")
                 EXCEPT !.isMuted = TRUE]
        ELSE IF ~s1.isMuted THEN setTimeout(s1, "start", OtherErrorTicks) ELSE s1

----------------------------------------------------------------------------
(* Speech output *)

Utterance(src) == [src |-> src, started |-> FALSE]

\* speakTextWithEmotion(text, emotion), up to speechSynthesis.speak(utterance)
speakTextWithEmotion(s, text) ==
    IF ~s.ttsEnabled \/ text = <<>> THEN s
    ELSE [s EXCEPT !.isSpeaking = TRUE, !.synth = Append(@, Utterance("emotion"))]

\* speakText(text): cancel() empties the queue, the removed utterances still
\* report to their handlers
speakText(s, text) ==
    IF ~s.ttsEnabled THEN s
    ELSE [s EXCEPT !.cancelled = @ + Len(s.synth),
                   !.isSpeaking = TRUE,
                   !.synth = <<Utterance("text")>>]

\* utterance.onstart
utteranceOnStart(s) ==
    LET s1 == [s EXCEPT !.synth[1].started = TRUE]
    IN  IF s.synth[1].src = "emotion"
        THEN updateListeningIndicator(s1, FALSE, "speaking")
        ELSE s1

\* utterance.onend and utterance.onerror of the utterance at the head of the queue
utteranceOnEnd(s) == [s EXCEPT !.isSpeaking = FALSE, !.synth = Tail(@)]

\* utterance.onerror that leaves isSpeaking set
utteranceOnErrorKeepsSpeaking(s) == [s EXCEPT !.synth = Tail(@)]

utteranceOnError(s) == [s EXCEPT !.isSpeaking = FALSE, !.synth = Tail(@)]

\* the handler of an utterance that cancel() removed
utteranceOnCancelled(s) == [s EXCEPT !.isSpeaking = FALSE, !.cancelled = @ - 1]

----------------------------------------------------------------------------
(* Voice-triggered chat exchange *)

\* handleVoiceInput(transcript) up to the await of fetch('/api/chat')
handleVoiceInput(s, transcript) ==
    IF Trim(transcript) = <<>> THEN s
    ELSE LET s1 == pauseContinuousListening(s)
             s2 == showVoiceProcessing(s1, TRUE)
             s3 == addChatMessage(s2, transcript, TRUE)
         IN  [s3 EXCEPT !.fetches = @ + 1]

VoiceOutcomes == {"ok", "okEmpty", "fail", "error"}

ReplyText == <<"o", "k">>

\* handleVoiceInput after the await with no finally block
handleVoiceReplyKeepsProcessing(s, outcome) ==
    IF outcome \in {"ok", "okEmpty"}
    THEN LET s1 == addChatMessage(s, IF outcome = "ok" THEN ReplyText ELSE <<>>, FALSE)
         IN  IF s1.ttsEnabled
             THEN speakTextWithEmotion(s1, IF outcome = "ok" THEN ReplyText ELSE <<>>)
             ELSE resumeListeningAfterResponse(s1)
    ELSE resumeListeningAfterResponse(showNotification(s, "Voice chat failed", "error"))

\* handleVoiceInput after the await: the reply of the backend, the catch and the finally
handleVoiceReply(s, outcome) ==
    LET body ==
            IF outcome = "ok"
            THEN LET s1 == addChatMessage(s, ReplyText, FALSE)
                 IN  IF s1.ttsEnabled THEN speakTextWithEmotion(s1, ReplyText)
                     ELSE resumeListeningAfterResponse(s1)
            ELSE IF outcome = "okEmpty"
            THEN LET s1 == addChatMessage(s, <<>>, FALSE)
                 IN  IF s1.ttsEnabled THEN speakTextWithEmotion(s1, <<>>)
                     ELSE resumeListeningAfterResponse(s1)
            ELSE IF outcome = "fail"
            THEN resumeListeningAfterResponse(showNotification(s, "Chat failed", "error"))
            ELSE resumeListeningAfterResponse(showNotification(s, "Voice chat failed", "error"))
    IN  showVoiceProcessing(body, FALSE)

----------------------------------------------------------------------------
(* Utterance batching *)

\* processFinalTranscript that keeps only the newest fragment
processFinalTranscriptReplacing(s, transcript) ==
    [s EXCEPT !.voiceBuffer = <<[text |-> transcript, confidence |-> getLastConfidence]>>,
              !.silenceTimeout = SilenceTicks,
              !.arrived = Append(@, transcript)]

\* processFinalTranscript that buffers the fragment and sets no timer
processFinalTranscriptNoTimer(s, transcript) ==
    [s EXCEPT !.voiceBuffer = Append(@, [text |-> transcript, confidence |-> getLastConfidence]),
              !.arrived = Append(@, transcript)]

processFinalTranscript(s, transcript) ==
    [s EXCEPT !.voiceBuffer = Append(@, [text |-> transcript, confidence |-> getLastConfidence]),
              !.silenceTimeout = SilenceTicks,
              !.arrived = Append(@, transcript)]

\* the test with a text of exactly the minimum length let through
AcceptsInclusive(buf) ==
    /\ SumConfidence(buf) >= voiceActivationSensitivity * Len(buf)
    /\ Len(Trim(JoinSpaces(Texts(buf)))) >= MinTextLength

\* the test of processVoiceBuffer on the combined text and the mean confidence:
\* avgConfidence >= 0.7 with avgConfidence = sum / length, in tenths
Accepts(buf) ==
    /\ SumConfidence(buf) >= voiceActivationSensitivity * Len(buf)
    /\ Len(Trim(JoinSpaces(Texts(buf)))) > MinTextLength

\* processVoiceBuffer that leaves the buffer as it is
processVoiceBufferKeepsBuffer(s) ==
    IF Len(s.voiceBuffer) = 0 THEN s
    ELSE IF Accepts(s.voiceBuffer)
         THEN handleVoiceInput(s, Trim(JoinSpaces(Texts(s.voiceBuffer))))
         ELSE s

processVoiceBuffer(s) ==
    IF Len(s.voiceBuffer) = 0 THEN s
    ELSE LET combinedText == Trim(JoinSpaces(Texts(s.voiceBuffer)))
             s1 == [s EXCEPT !.voiceBuffer = <<>>]
         IN  IF Accepts(s.voiceBuffer) THEN handleVoiceInput(s1, combinedText) ELSE s1

\* the callback of this.silenceTimeout
silenceCallback(s) ==
    processVoiceBuffer([s EXCEPT !.silenceTimeout = NoTimer, !.arrived = <<>>])

RECURSIVE Transcript(_, _)
\* the loop of handleSpeechResults: the final, or the interim, results concatenated
Transcript(results, final) ==
    IF results = <<>> THEN <<>>
    ELSE (IF Head(results).isFinal = final THEN Head(results).transcript ELSE <<>>)
         \o Transcript(Tail(results), final)

handleSpeechResults(s, results) ==
    LET finalTranscript == Transcript(results, TRUE)
        interimTranscript == Transcript(results, FALSE)
        s1 == IF interimTranscript # <<>> THEN updateInterimTranscript(s) ELSE s
    IN  IF Trim(finalTranscript) # <<>>
        THEN processFinalTranscript(clearInterimTranscript(s1), Trim(finalTranscript))
        ELSE s1

----------------------------------------------------------------------------
(* Steps of the voice session *)

RecognitionErrors ==
    {"Could not start microphone", "Microphone access denied", "Microphone permission denied"}

ShowsRecognitionError(s) ==
    \E i \in 1..Len(s.shown) :
        s.shown[i].type = "error" /\ s.shown[i].msg \in RecognitionErrors

\* speechRecognition.start() succeeded in the step from the current state to s
Started(s) == dev # "running" /\ s.dev = "running"

\* the step stays within the bounds of the model
Bounded(s) ==
    /\ Len(s.voiceBuffer) <= MaxBuf
    /\ BagCardinality(s.timers) <= MaxTimers
    /\ s.fetches <= MaxInFlight
    /\ Len(s.synth) + s.cancelled <= MaxSynth

\* the starts counted after the step to state s; heard tells that the step
\* processed a recognition result or a mute toggle. One start more than
\* maxRestartAttempts restarts is as far as the count goes.
CountStarts(s, heard) ==
    IF starts = NoCount THEN NoCount
    ELSE IF heard THEN 0
    ELSE IF Started(s) /\ starts <= maxRestartAttempts + 1 THEN starts + 1
    ELSE starts

\* the voice-triggered requests counted after the step to state s, as far as
\* the maxRetries a typed message is allowed
CountVoiceSent(s) ==
    IF voiceSent = NoCount THEN NoCount
    ELSE IF s.fetches > fetches /\ voiceSent < maxRetries THEN voiceSent + 1
    ELSE IF s.fetches < fetches THEN 0
    ELSE voiceSent

\* The step to state s; opens tells that the step is a 'no-speech' error reported
\* while unmuted, terminal that it is a terminal device error, unmuted that the
\* user unmuted, heard that it processed a recognition result or a mute toggle.
Step(s, opens, terminal, unmuted, heard) ==
    /\ Bounded(s)
    /\ Commit(s)
    /\ noSpeechAge' = IF opens THEN 0 ELSE IF Started(s) THEN NoAge ELSE noSpeechAge
    /\ noSpeechNoted' =
         IF opens THEN ShowsRecognitionError(s)
         ELSE IF noSpeechAge # NoAge THEN noSpeechNoted \/ ShowsRecognitionError(s)
         ELSE noSpeechNoted
    /\ terminalErr' = IF terminal THEN TRUE ELSE IF unmuted THEN FALSE ELSE terminalErr
    /\ mutedMid' = IF ~isMuted /\ s.isMuted /\ ~terminal THEN fetches > 0 \/ isSpeaking
                   ELSE IF unmuted THEN FALSE
                   ELSE mutedMid
    /\ unmutedSpeaking' = IF unmuted THEN isSpeaking /\ s.isSpeaking
                          ELSE unmutedSpeaking /\ s.isSpeaking /\ ~s.isMuted
    /\ starts' = CountStarts(s, heard)
    /\ voiceSent' = CountVoiceSent(s)
    /\ UNCHANGED sendVars
    /\ UNCHANGED taskVars
    /\ UNCHANGED fixVars

Plain(s) == Step(s, FALSE, FALSE, FALSE, FALSE)

Result(transcript, isFinal) == [transcript |-> transcript, isFinal |-> isFinal]

\* event.results from event.resultIndex on, as the device may report them
ResultEvents ==
    { <<Result(<<"h", "i">>, TRUE)>>,
      <<Result(<<" ", "o", "k", " ">>, TRUE)>>,
      <<Result(<<" ">>, TRUE)>>,
      <<Result(<<"h", "i">>, FALSE)>>,
      <<Result(<<"h">>, TRUE), Result(<<"i">>, TRUE)>>,
      <<Result(<<"h", "i">>, TRUE), Result(<<" ", "o", "k", " ">>, FALSE)>> }

\* recognition.onresult: results reach the page while the device runs, and
\* after stop() until the device reports end
DeviceResult ==
    \E results \in ResultEvents :
        /\ dev \in {"running", "stopping"}
        /\ Step(handleSpeechResults(S, results), FALSE, FALSE, FALSE, TRUE)

\* recognition.onerror followed by recognition.onend: the device reports end
\* right after the error that ended the session
DeviceError ==
    \E error \in DeviceErrors :
        /\ dev = "running"
        /\ Step(handleSpeechEnd(handleSpeechError([S EXCEPT !.dev = "idle"], error)),
                error = "no-speech" /\ ~isMuted, error \in TerminalErrors, FALSE, FALSE)

\* recognition.onend: after stop(), or when the device ends the session itself
DeviceEnd ==
    /\ dev \in {"running", "stopping"}
    /\ Plain(handleSpeechEnd([S EXCEPT !.dev = "idle"]))

Due == {t \in BagToSet(timers) : t.rem = 0}

timerCallback(s, kind) ==
    IF kind = "init" THEN initCallback(s)
    ELSE IF kind = "start" THEN startContinuousListening(s)
    ELSE IF kind = "resumeOuter" THEN resumeContinuousListening(s)
    ELSE resumeInnerCallback(s)

TimerFire ==
    \E t \in Due :
        Plain(timerCallback([S EXCEPT !.timers = @ (-) SetToBag({t})], t.kind))

SilenceFire ==
    /\ silenceTimeout = 0
    /\ Plain(silenceCallback(S))

UserToggleMute ==
    \E wasMuted \in {isMuted} :
        Step(toggleMute(S), FALSE, FALSE, wasMuted, TRUE)

toggleTTS(s) ==
    IF ~s.ttsEnabled
    THEN showNotification([s EXCEPT !.ttsEnabled = TRUE], "Text-to-speech enabled", "success")
    ELSE showNotification([s EXCEPT !.ttsEnabled = FALSE], "Text-to-speech disabled", "info")

UserToggleTTS ==
    \E s \in {toggleTTS(S)} : Plain(s)

\* visibilitychange to visible
VisibilityVisible ==
    /\ ~isListeningActive
    /\ Plain(setTimeout(S, "resumeOuter", ResumeTicks))

\* the reply to one of the requests in flight arrives
VoiceReply ==
    \E outcome \in VoiceOutcomes :
        /\ fetches > 0
        /\ Plain(handleVoiceReply([S EXCEPT !.fetches = @ - 1], outcome))

SynthStart ==
    /\ synth # <<>>
    /\ ~synth[1].started
    /\ Plain(utteranceOnStart(S))

SynthEnd ==
    /\ synth # <<>>
    /\ synth[1].started
    /\ Plain(utteranceOnEnd(S))

SynthError ==
    /\ synth # <<>>
    /\ Plain(utteranceOnError(S))

SynthCancelled ==
    /\ cancelled > 0
    /\ Plain(utteranceOnCancelled(S))

Elapse(b) ==
    [t \in {Timer(x.kind, x.rem - 1) : x \in BagToSet(b)} |-> b[Timer(t.kind, t.rem + 1)]]

\* no task is known to the page or to the backend, no request is in flight
TasksIdle ==
    /\ tasks = <<>>
    /\ backend = <<>>
    /\ nextId = 1
    /\ inflight = {}
    /\ opShown = <<>>

\* the chat-fix voice controller as the page load leaves it
FixIdle ==
    /\ isListening = FALSE
    /\ recognition = "none"
    /\ recDev = "idle"
    /\ restartTimers = 0
    /\ probing = FALSE
    /\ chatInput = ""
    /\ submitTimers = 0
    /\ fixFetches = 0
    /\ stoppedSince = FALSE
    /\ erroredSince = FALSE

\* 500 ms pass: no timer is due
Tick ==
    /\ Due = {}
    /\ silenceTimeout # 0
    /\ ~(sendPc = "backoff" /\ backoff = 0)
    /\ \/ timers # EmptyBag
       \/ silenceTimeout # NoTimer
       \/ sendPc = "backoff"
       \/ noSpeechAge \in 0..NoSpeechTicks
    /\ timers' = Elapse(timers)
    /\ silenceTimeout' = IF silenceTimeout = NoTimer THEN NoTimer ELSE silenceTimeout - 1
    /\ backoff' = IF sendPc = "backoff" THEN backoff - 1 ELSE backoff
    /\ noSpeechAge' = IF noSpeechAge \in 0..NoSpeechTicks THEN noSpeechAge + 1 ELSE noSpeechAge
    /\ shown' = <<>>
    /\ chatLog' = <<>>
    /\ UNCHANGED <<speechRecognition, isMuted, isListeningActive, isSpeaking, ttsEnabled,
                   dev, voiceBuffer, fetches, synth, cancelled, indicator, arrived,
                   noSpeechNoted, terminalErr, mutedMid, unmutedSpeaking, starts, voiceSent,
                   sendPc, retryCount, requests, sendLog, typing, sendChat, sendNotes>>
    /\ UNCHANGED taskVars
    /\ UNCHANGED fixVars

\* The state the constructor leaves: init() has run, its auto-start timer is pending
Constructed ==
    /\ speechRecognition \in {"none", "device"}
    /\ isMuted \in BOOLEAN
    /\ ttsEnabled \in BOOLEAN
    /\ isListeningActive = FALSE
    /\ isSpeaking = FALSE
    /\ dev = "idle"
    /\ voiceBuffer = <<>>
    /\ silenceTimeout = NoTimer
    /\ timers = SetToBag({Timer("init", InitTicks)})
    /\ fetches = 0
    /\ synth = <<>>
    /\ cancelled = 0
    /\ indicator = "absent"
    /\ shown = <<>>
    /\ chatLog = <<>>
    /\ arrived = <<>>
    /\ noSpeechAge = NoAge
    /\ noSpeechNoted = FALSE
    /\ terminalErr = FALSE
    /\ mutedMid = FALSE
    /\ unmutedSpeaking = FALSE
    /\ sendPc = "idle"
    /\ retryCount = 0
    /\ backoff = 0
    /\ requests = 0
    /\ sendLog = <<>>
    /\ typing = FALSE
    /\ sendChat = <<>>
    /\ sendNotes = <<>>
    /\ TasksIdle
    /\ FixIdle

Init == Constructed /\ starts = NoCount /\ voiceSent = NoCount

----------------------------------------------------------------------------
(* Typed messages: sendMessage and its retry loop *)

Q == [sendPc |-> sendPc, retryCount |-> retryCount, backoff |-> backoff,
      requests |-> requests, sendLog |-> sendLog, typing |-> typing,
      sendChat |-> sendChat, sendNotes |-> sendNotes]

CommitSend(q) ==
    /\ sendPc' = q.sendPc
    /\ retryCount' = q.retryCount
    /\ backoff' = q.backoff
    /\ requests' = q.requests
    /\ sendLog' = q.sendLog
    /\ typing' = q.typing
    /\ sendChat' = q.sendChat
    /\ sendNotes' = q.sendNotes

\* what one attempt can end in: a 2xx reply with success and a response text; a 2xx
\* reply without them; HTTP 5xx; the 30 s timeout (AbortError); a network error
\* (another HTTP error status and a reply that is not JSON take the same path
\* through the catch block)
SendOutcomes == {"success", "malformed", "http5xx", "timeout", "network"}

\* fetch('/api/chat', ...) of the retry loop
sendFetch(q) == [q EXCEPT !.sendPc = "fetch", !.requests = @ + 1]

\* sendMessage() from the submit of the chat form up to the first await
sendMessage(q, message) ==
    LET q0 == [q EXCEPT !.requests = 0, !.sendLog = <<>>, !.sendChat = <<>>,
                        !.sendNotes = <<>>, !.retryCount = 0]
    IN  IF Trim(message) = <<>> THEN q0
        ELSE sendFetch([q0 EXCEPT !.sendChat = <<[text |-> Trim(message), isUser |-> TRUE]>>,
                                  !.typing = TRUE])

\* the text of the bot message the catch block adds on giving up (a text is a
\* sequence, these three are kept whole)
sendFailureText(outcome) ==
    IF outcome = "timeout" THEN <<"Request timed out">>
    ELSE IF outcome = "http5xx" THEN <<"Server is experiencing issues">>
    ELSE <<"Connection problem">>

sendFailureNote(outcome) ==
    IF outcome = "timeout" THEN [msg |-> "Request timed out", type |-> "warning"]
    ELSE IF outcome = "http5xx" THEN [msg |-> "Server error", type |-> "error"]
    ELSE [msg |-> "Connection failed", type |-> "error"]

\* the catch block giving up one attempt late
sendCatchOneMore(q, outcome) ==
    LET q1 == [q EXCEPT !.retryCount = @ + 1]
    IN  IF q1.retryCount > maxRetries
        THEN [q1 EXCEPT !.typing = FALSE,
                        !.sendChat = Append(@, [text |-> sendFailureText(outcome), isUser |-> FALSE]),
                        !.sendNotes = Append(@, sendFailureNote(outcome)),
                        !.sendPc = "idle"]
        ELSE [q1 EXCEPT !.sendPc = "backoff", !.backoff = 2 * q1.retryCount]

\* the catch block of the retry loop
sendCatch(q, outcome) ==
    LET q1 == [q EXCEPT !.retryCount = @ + 1]
    IN  IF q1.retryCount >= maxRetries
        THEN [q1 EXCEPT !.typing = FALSE,
                        !.sendChat = Append(@, [text |-> sendFailureText(outcome), isUser |-> FALSE]),
                        !.sendNotes = Append(@, sendFailureNote(outcome)),
                        !.sendPc = "idle"]
        ELSE [q1 EXCEPT !.sendPc = "backoff", !.backoff = 2 * q1.retryCount]

\* the try block after the await of fetch, for an attempt that did not succeed
sendAttemptFailed(q, outcome) ==
    IF outcome = "malformed"
    THEN sendCatch([q EXCEPT !.typing = FALSE], outcome)
    ELSE sendCatch(q, outcome)

\* the try block for a reply with success that leaves the placeholder in the chat
sendAttemptSucceededKeepsPlaceholder(q) ==
    [q EXCEPT !.sendChat = Append(@, [text |-> ReplyText, isUser |-> FALSE]),
              !.sendPc = "idle"]

\* the try block after the await of fetch, for a reply with success and a response
sendAttemptSucceeded(q) ==
    [q EXCEPT !.typing = FALSE,
              !.sendChat = Append(@, [text |-> ReplyText, isUser |-> FALSE]),
              !.sendPc = "idle"]

GhostsUnchanged ==
    UNCHANGED <<noSpeechAge, noSpeechNoted, terminalErr, mutedMid, unmutedSpeaking, starts, voiceSent,
                tasks, backend, nextId, inflight, opShown,
                isListening, recognition, recDev, restartTimers, chatInput, submitTimers, fixFetches, probing,
                stoppedSince, erroredSince>>

TypedMessages == {<<"h", "i", " ">>, <<" ">>, <<>>}

UserSend ==
    \E message \in TypedMessages :
        /\ sendPc = "idle"
        /\ CommitSend(sendMessage(Q, message))
        /\ Commit(S)
        /\ GhostsUnchanged

SendReply ==
    \E outcome \in SendOutcomes :
        /\ sendPc = "fetch"
        /\ IF outcome = "success"
           THEN /\ CommitSend([sendAttemptSucceeded(Q) EXCEPT !.sendLog = Append(@, outcome)])
                /\ Bounded(IF ttsEnabled THEN speakText(S, ReplyText) ELSE S)
                /\ Commit(IF ttsEnabled THEN speakText(S, ReplyText) ELSE S)
           ELSE /\ CommitSend([sendAttemptFailed(Q, outcome) EXCEPT !.sendLog = Append(@, outcome)])
                /\ Commit(S)
        /\ GhostsUnchanged

\* the wait of 1000 * retryCount ms is over: the loop issues the next request
SendRetry ==
    /\ sendPc = "backoff"
    /\ backoff = 0
    /\ CommitSend(sendFetch(Q))
    /\ Commit(S)
    /\ GhostsUnchanged

----------------------------------------------------------------------------
(* Tasks and the other endpoints: one fetch per operation, the reply handled *)
(* in the continuation after the await                                       *)

Task(id, done) == [id |-> id, done |-> done]

TaskOps == {"loadTasks", "addTask", "completeTask", "deleteTask", "scheduleTask"}

PageOps == {"loadChatHistory", "loadEmotionalStatus", "checkIntegrationStatus"}

UserOps == {"exportData", "importData", "sendAudioMessage"}

\* success true; success false; the fetch or response.json() throws
ReplyOutcomes == {"ok", "fail", "throw"}

Note(msg, type) == [msg |-> msg, type |-> type]

\* the requests not yet answered take the lowest free slot
FreeSlots == (1..MaxRequests) \ {r.n : r \in inflight}

\* fetch(...) of operation op: chain marks the loadTasks of importData, which
\* is followed by loadChatHistory
fetchEndpoint(reqs, op, id, chain) ==
    LET used == {r.n : r \in reqs}
        n == CHOOSE k \in (1..MaxRequests) \ used :
                 \A j \in (1..MaxRequests) \ used : k <= j
    IN  reqs \cup {[n |-> n, op |-> op, id |-> id, chain |-> chain,
                    state |-> "sent", outcome |-> "none", reply |-> <<>>]}

Ids(ts) == {ts[i].id : i \in 1..Len(ts)}

\* this.tasks.findIndex(t => t.id === taskId), 0 for -1
findIndex(ts, id) ==
    IF id \in Ids(ts)
    THEN CHOOSE i \in 1..Len(ts) : ts[i].id = id /\ \A j \in 1..(i - 1) : ts[j].id # id
    ELSE 0

\* a filter that removes the first entry with the id only
filterOutFirst(ts, id) ==
    IF findIndex(ts, id) = 0 THEN ts
    ELSE SubSeq(ts, 1, findIndex(ts, id) - 1) \o SubSeq(ts, findIndex(ts, id) + 1, Len(ts))

\* this.tasks.filter(t => t.id !== taskId)
filterOut(ts, id) == SelectSeq(ts, LAMBDA t : t.id # id)

\* this.tasks[taskIndex] = data.task when taskIndex !== -1
replaceAt(ts, id, task) ==
    IF findIndex(ts, id) = 0 THEN ts ELSE [ts EXCEPT ![findIndex(ts, id)] = task]

\* what the continuation of operation r.op leaves in this.tasks
tasksAfter(ts, r) ==
    IF r.outcome # "ok" THEN ts
    ELSE IF r.op = "loadTasks" THEN r.reply
    ELSE IF r.op = "addTask" THEN ts \o r.reply
    ELSE IF r.op \in {"completeTask", "scheduleTask"} THEN replaceAt(ts, r.id, r.reply[1])
    ELSE IF r.op = "deleteTask" THEN filterOut(ts, r.id)
    ELSE ts

\* the notifications the continuation of operation r.op shows
notesAfter(ts, r) ==
    IF r.op \in PageOps THEN <<>>
    ELSE IF r.outcome = "ok"
    THEN IF r.op = "loadTasks" THEN <<>>
         ELSE IF r.op = "completeTask" /\ findIndex(ts, r.id) = 0 THEN <<>>
         ELSE <<Note("done", "success")>>
    ELSE IF r.outcome = "fail"
    THEN IF r.op = "addTask" THEN <<Note("failed", "warning")>>
         ELSE <<Note("failed", "error")>>
    ELSE <<Note("error", "error")>>

\* the requests the continuation of operation r.op issues: importData reloads
\* the tasks and then the chat history
requestsAfter(reqs, r) ==
    IF r.op = "importData" /\ r.outcome = "ok"
    THEN fetchEndpoint(reqs, "loadTasks", 0, TRUE)
    ELSE IF r.op = "loadTasks" /\ r.chain
    THEN fetchEndpoint(reqs, "loadChatHistory", 0, FALSE)
    ELSE reqs

\* the backend's task list after it has served request r with success
backendAfter(b, r) ==
    IF r.op = "addTask" THEN Append(b, Task(nextId, FALSE))
    ELSE IF r.op = "completeTask" THEN replaceAt(b, r.id, Task(r.id, TRUE))
    ELSE IF r.op = "deleteTask" THEN filterOut(b, r.id)
    ELSE b

\* the tasks in the backend's reply to request r
replyOf(b, r) ==
    IF r.op = "loadTasks" THEN b
    ELSE IF r.op = "addTask" THEN <<Task(nextId, FALSE)>>
    ELSE IF r.op = "completeTask" THEN <<Task(r.id, TRUE)>>
    ELSE IF r.op = "scheduleTask" THEN <<b[findIndex(b, r.id)]>>
    ELSE <<>>

\* the backend can serve request r with success
Servable(r) ==
    IF r.op = "addTask" THEN nextId <= MaxTaskId
    ELSE IF r.op \in {"completeTask", "deleteTask", "scheduleTask"} THEN r.id \in Ids(backend)
    ELSE TRUE

VoiceUnchanged ==
    UNCHANGED <<speechRecognition, isMuted, isListeningActive, isSpeaking, ttsEnabled, dev,
                voiceBuffer, silenceTimeout, timers, fetches, synth, cancelled, indicator,
                shown, chatLog, arrived, noSpeechAge, noSpeechNoted, terminalErr, mutedMid,
                unmutedSpeaking, starts, voiceSent,
                isListening, recognition, recDev, restartTimers, chatInput, submitTimers, fixFetches, probing,
                stoppedSince, erroredSince>>

\* an operation issues its request
Call(op, id) ==
    /\ FreeSlots # {}
    /\ inflight' = fetchEndpoint(inflight, op, id, FALSE)
    /\ opShown' = IF op = "sendAudioMessage" THEN <<Note("Processing audio...", "info")>> ELSE <<>>
    /\ UNCHANGED <<tasks, backend, nextId>>
    /\ UNCHANGED sendVars
    /\ VoiceUnchanged

\* addTask(): an empty task text is refused with a warning
UserAddTask ==
    \E text \in {"", "t"} :
        IF text = ""
        THEN /\ opShown' = <<Note("Please enter a task", "warning")>>
             /\ UNCHANGED <<tasks, backend, nextId, inflight>>
             /\ UNCHANGED sendVars
             /\ VoiceUnchanged
        ELSE Call("addTask", 0)

\* completeTask(taskId) and scheduleTask(taskId) of a rendered task
UserCompleteTask == \E id \in Ids(tasks) : Call("completeTask", id)

UserScheduleTask == \E id \in Ids(tasks) : Call("scheduleTask", id)

\* deleteTask(taskId) of a rendered task: nothing happens unless the dialog is confirmed
UserDeleteTask ==
    \E id \in Ids(tasks), confirmed \in BOOLEAN :
        IF confirmed THEN Call("deleteTask", id)
        ELSE /\ opShown' = <<>>
             /\ UNCHANGED <<tasks, backend, nextId, inflight>>
             /\ UNCHANGED sendVars
             /\ VoiceUnchanged

\* exportData(), importData(file), sendAudioMessage(blob)
UserCall ==
    /\ FreeSlots # {}
    /\ \E op \in UserOps : Call(op, 0)

\* importData(file) with a JSON file
UserImport ==
    /\ FreeSlots # {}
    /\ Call("importData", 0)

\* loadChatHistory(), loadEmotionalStatus(), checkIntegrationStatus() of the page
PageCall ==
    /\ FreeSlots # {}
    /\ \E op \in PageOps : Call(op, 0)

\* the backend serves a request
BackendServes ==
    \E r \in inflight, outcome \in ReplyOutcomes :
        /\ r.state = "sent"
        /\ outcome = "ok" => Servable(r)
        /\ inflight' = (inflight \ {r}) \cup
               {[r EXCEPT !.state = "answered", !.outcome = outcome,
                          !.reply = IF outcome = "ok" THEN replyOf(backend, r) ELSE <<>>]}
        /\ backend' = IF outcome = "ok" THEN backendAfter(backend, r) ELSE backend
        /\ nextId' = IF outcome = "ok" /\ r.op = "addTask" THEN nextId + 1 ELSE nextId
        /\ opShown' = <<>>
        /\ UNCHANGED tasks
        /\ UNCHANGED sendVars
        /\ VoiceUnchanged

\* the continuation of an operation runs on the reply to its request
Continuation ==
    \E r \in inflight :
        /\ r.state = "answered"
        /\ Len(tasksAfter(tasks, r)) <= MaxTasks
        /\ tasks' = tasksAfter(tasks, r)
        /\ opShown' = notesAfter(tasks, r)
        /\ inflight' = requestsAfter(inflight \ {r}, r)
        /\ UNCHANGED <<backend, nextId>>
        /\ UNCHANGED sendVars
        /\ VoiceUnchanged

(***************************************************************************)
(* The voice button of the chat form (static/js/chat-fix.js).  The page    *)
(* keeps one controller: isListening and recognition are shared by the     *)
(* handlers of every recognition object it creates.  The user presses the  *)
(* button to start only when the previous device has ended and no          *)
(* microphone prompt is open, so one device exists at a time.  The device  *)
(* reports start some time after start() was accepted; a stop() in between *)
(* leaves the start event on its way ("halting").  The 100 ms restart      *)
(* timer is shorter than a tick: it fires at any later step.               *)
(***************************************************************************)
AppUnchanged ==
    /\ UNCHANGED <<speechRecognition, isMuted, isListeningActive, isSpeaking, ttsEnabled, dev,
                   voiceBuffer, silenceTimeout, timers, fetches, synth, cancelled, indicator,
                   shown, chatLog, arrived, noSpeechAge, noSpeechNoted, terminalErr, mutedMid,
                   unmutedSpeaking, starts, voiceSent>>
    /\ UNCHANGED sendVars
    /\ UNCHANGED taskVars

dictation == <<chatInput, submitTimers, fixFetches>>

controller == <<isListening, recognition, recDev, restartTimers, probing, stoppedSince, erroredSince>>

\* recognition.start(): accepted by an idle device, InvalidStateError (caught) otherwise
recStart(d) == IF d = "idle" THEN "starting" ELSE d

\* recognition.stop(): the device ends after it; before the start event it leaves that event on its way
recStop(d) ==
    CASE d = "running" -> "stopping"
      [] d = "starting" -> "halting"
      [] OTHER -> d

\* voiceBtn click while isListening is false: startSecureSpeechRecognition up to its await
FixUserStart ==
    /\ ~isListening
    /\ ~probing
    /\ recDev = "idle"
    /\ probing' = TRUE
    /\ stoppedSince' = FALSE
    /\ UNCHANGED <<isListening, recognition, recDev, restartTimers, erroredSince>>
    /\ UNCHANGED dictation
    /\ AppUnchanged

\* getUserMedia settles: the handlers are installed and the device started, or the catch branch alerts
FixProbe ==
    /\ probing
    /\ probing' = FALSE
    /\ \E granted \in BOOLEAN :
          IF granted
          THEN /\ recognition' = "device"
               /\ recDev' = recStart(recDev)
          ELSE UNCHANGED <<recognition, recDev>>
    /\ UNCHANGED <<isListening, restartTimers, stoppedSince, erroredSince>>
    /\ UNCHANGED dictation
    /\ AppUnchanged

\* recognition.onstart
FixOnStart ==
    /\ recDev \in {"starting", "halting"}
    /\ recDev' = IF recDev = "starting" THEN "running" ELSE "stopping"
    /\ isListening' = TRUE
    /\ UNCHANGED <<recognition, restartTimers, probing, stoppedSince, erroredSince>>
    /\ UNCHANGED dictation
    /\ AppUnchanged

\* recognition.onend: the device has ended, on its own or after stop() or an error
FixOnEnd ==
    /\ recDev \in {"running", "stopping", "halting"}
    /\ isListening => restartTimers < MaxRestartTimers
    /\ recDev' = "idle"
    /\ restartTimers' = IF isListening THEN restartTimers + 1 ELSE restartTimers
    /\ erroredSince' = FALSE
    /\ UNCHANGED <<isListening, recognition, probing, stoppedSince>>
    /\ UNCHANGED dictation
    /\ AppUnchanged

\* the callback of the 100 ms timer of recognition.onend
FixRestartFire ==
    /\ restartTimers > 0
    /\ restartTimers' = restartTimers - 1
    /\ recDev' = IF isListening /\ recognition # "none" THEN recStart(recDev) ELSE recDev
    /\ UNCHANGED <<isListening, recognition, probing, stoppedSince, erroredSince>>
    /\ UNCHANGED dictation
    /\ AppUnchanged

\* recognition.onerror: the end event follows
FixOnError ==
    /\ recDev \in {"starting", "running", "stopping", "halting"}
    /\ recDev' = "stopping"
    /\ isListening' = FALSE
    /\ erroredSince' = TRUE
    /\ UNCHANGED <<recognition, restartTimers, probing, stoppedSince>>
    /\ UNCHANGED dictation
    /\ AppUnchanged

\* voiceBtn click while isListening is true: stopSpeechRecognition
FixUserStop ==
    /\ isListening
    /\ IF recognition # "none" /\ isListening
       THEN /\ recDev' = recStop(recDev)
            /\ isListening' = FALSE
            /\ stoppedSince' = TRUE
       ELSE UNCHANGED <<recDev, isListening, stoppedSince>>
    /\ UNCHANGED <<recognition, restartTimers, probing, erroredSince>>
    /\ UNCHANGED dictation
    /\ AppUnchanged

\* recognition.onresult: the transcript goes to the input field, a final one is submitted 500 ms later
FixOnResult ==
    /\ recDev \in {"running", "stopping"}
    /\ \E isFinal \in BOOLEAN :
          /\ isFinal => submitTimers < MaxSubmitTimers
          /\ chatInput' = IF isFinal THEN "final" ELSE "interim"
          /\ submitTimers' = IF isFinal THEN submitTimers + 1 ELSE submitTimers
    /\ UNCHANGED fixFetches
    /\ UNCHANGED controller
    /\ AppUnchanged

\* the submit timer fires: the submit handler of the chat form runs up to its await
FixSubmit ==
    /\ submitTimers > 0
    /\ chatInput # "" => fixFetches < MaxInFlight
    /\ submitTimers' = submitTimers - 1
    /\ chatInput' = ""
    /\ fixFetches' = IF chatInput # "" THEN fixFetches + 1 ELSE fixFetches
    /\ UNCHANGED controller
    /\ AppUnchanged

\* the reply to a submitted message, or its failure: a chat message is added
FixReply ==
    /\ fixFetches > 0
    /\ fixFetches' = fixFetches - 1
    /\ UNCHANGED <<chatInput, submitTimers>>
    /\ UNCHANGED controller
    /\ AppUnchanged

(* The voice session: the user speaks and mutes, types nothing, and leaves the *)
(* stored text-to-speech setting as it is                                     *)

Next ==
    \/ DeviceResult
    \/ DeviceError
    \/ DeviceEnd
    \/ TimerFire
    \/ SilenceFire
    \/ UserToggleMute
    \/ VisibilityVisible
    \/ VoiceReply
    \/ SynthStart
    \/ SynthEnd
    \/ SynthError
    \/ Tick

Spec == Init /\ [][Next]_vars

(* The voice session with text-to-speech switched off and left off *)

InitQuiet == Init /\ speechRecognition = "device" /\ ~ttsEnabled

NextQuiet ==
    \/ DeviceResult
    \/ DeviceError
    \/ DeviceEnd
    \/ TimerFire
    \/ SilenceFire
    \/ UserToggleMute
    \/ VisibilityVisible
    \/ VoiceReply
    \/ Tick

SpecQuiet == InitQuiet /\ [][NextQuiet]_vars

(* Automatic recovery: the unmuted voice session left to the device, its starts *)
(* counted                                                                      *)

InitRestart ==
    /\ Constructed
    /\ speechRecognition = "device"
    /\ ~isMuted
    /\ ~ttsEnabled
    /\ starts = 0
    /\ voiceSent = 0

NextRestart ==
    \/ DeviceResult
    \/ DeviceError
    \/ DeviceEnd
    \/ TimerFire
    \/ SilenceFire
    \/ VoiceReply
    \/ Tick

SpecRestart == InitRestart /\ [][NextRestart]_vars

(* Typed messages on a platform without speech recognition *)

InitSend == Init /\ speechRecognition = "none"

NextSend ==
    \/ UserSend
    \/ SendReply
    \/ SendRetry
    \/ UserToggleTTS
    \/ SynthStart
    \/ SynthEnd
    \/ SynthError
    \/ SynthCancelled
    \/ TimerFire
    \/ Tick

SpecSend == InitSend /\ [][NextSend]_vars

(* Tasks and the other endpoints on a page whose voice session is muted *)

InitTasks == Init /\ speechRecognition = "none" /\ isMuted /\ ~ttsEnabled

NextTasks ==
    \/ UserAddTask
    \/ UserCompleteTask
    \/ UserDeleteTask
    \/ UserImport
    \/ BackendServes
    \/ Continuation

SpecTasks == InitTasks /\ [][NextTasks]_vars

(* Every endpoint other than /api/chat *)

NextEndpoints ==
    \/ UserAddTask
    \/ UserCompleteTask
    \/ UserScheduleTask
    \/ UserDeleteTask
    \/ UserCall
    \/ PageCall
    \/ BackendServes
    \/ Continuation

SpecEndpoints == InitTasks /\ [][NextEndpoints]_vars

(* The voice button of the chat form, on a page whose own voice session is off *)
NextFix ==
    \/ FixUserStart
    \/ FixProbe
    \/ FixOnStart
    \/ FixOnEnd
    \/ FixRestartFire
    \/ FixOnError
    \/ FixUserStop
    \/ FixOnResult
    \/ FixSubmit
    \/ FixReply

SpecFix == InitTasks /\ [][NextFix]_vars

(* processVoiceBuffer as a function of the buffer: the silence timer is due on *)
(* a buffer of any fragments                                                  *)

BufferTexts == {<<"a">>, <<"h", "i">>, <<"h", "e", "y">>}

BufferConfidences == {6, 7, 8}

BufferItems == [text : BufferTexts, confidence : BufferConfidences]

Buffers == UNION {[1..n -> BufferItems] : n \in 1..MaxBuf}

InitBuffer ==
    /\ speechRecognition = "device"
    /\ isMuted = FALSE
    /\ ttsEnabled \in BOOLEAN
    /\ isListeningActive \in BOOLEAN
    /\ dev = (IF isListeningActive THEN "running" ELSE "idle")
    /\ isSpeaking = FALSE
    /\ voiceBuffer \in Buffers
    /\ silenceTimeout = 0
    /\ timers = EmptyBag
    /\ fetches = 0
    /\ synth = <<>>
    /\ cancelled = 0
    /\ indicator = "listening"
    /\ shown = <<>>
    /\ chatLog = <<>>
    /\ arrived = Texts(voiceBuffer)
    /\ noSpeechAge = NoAge
    /\ noSpeechNoted = FALSE
    /\ terminalErr = FALSE
    /\ mutedMid = FALSE
    /\ unmutedSpeaking = FALSE
    /\ starts = NoCount
    /\ voiceSent = NoCount
    /\ sendPc = "idle"
    /\ retryCount = 0
    /\ backoff = 0
    /\ requests = 0
    /\ sendLog = <<>>
    /\ typing = FALSE
    /\ sendChat = <<>>
    /\ sendNotes = <<>>
    /\ TasksIdle
    /\ FixIdle

NextBuffer == SilenceFire

SpecBuffer == InitBuffer /\ [][NextBuffer]_vars

(* processVoiceBuffer called again: by the silence timer and directly, in *)
(* either order, on every buffer                                           *)

\* this.processVoiceBuffer()
ProcessVoiceBuffer == \E s \in {processVoiceBuffer(S)} : Plain(s)

InitFlush == InitBuffer

NextFlush == SilenceFire \/ ProcessVoiceBuffer

SpecFlush == InitFlush /\ [][NextFlush]_vars

(* Speech output: the session is muted with voice requests in flight, the user *)
(* types messages and leaves the text-to-speech setting as it is; the platform *)
(* reports end or error for every utterance                                    *)

InitSpeech ==
    /\ speechRecognition = "device"
    /\ isMuted = TRUE
    /\ ttsEnabled \in BOOLEAN
    /\ isListeningActive = FALSE
    /\ dev = "idle"
    /\ isSpeaking = FALSE
    /\ voiceBuffer = <<>>
    /\ silenceTimeout = NoTimer
    /\ timers = EmptyBag
    /\ fetches = MaxInFlight
    /\ synth = <<>>
    /\ cancelled = 0
    /\ indicator = "ready"
    /\ shown = <<>>
    /\ chatLog = <<>>
    /\ arrived = <<>>
    /\ noSpeechAge = NoAge
    /\ noSpeechNoted = FALSE
    /\ terminalErr = FALSE
    /\ mutedMid = FALSE
    /\ unmutedSpeaking = FALSE
    /\ starts = NoCount
    /\ voiceSent = NoCount
    /\ sendPc = "idle"
    /\ retryCount = 0
    /\ backoff = 0
    /\ requests = 0
    /\ sendLog = <<>>
    /\ typing = FALSE
    /\ sendChat = <<>>
    /\ sendNotes = <<>>
    /\ TasksIdle
    /\ FixIdle

NextSpeech ==
    \/ VoiceReply
    \/ UserSend
    \/ SendReply
    \/ SendRetry
    \/ SynthStart
    \/ SynthEnd
    \/ SynthError
    \/ SynthCancelled
    \/ TimerFire
    \/ Tick

SynthReports == SynthEnd \/ SynthError \/ SynthCancelled

FairSpecSpeech == InitSpeech /\ [][NextSpeech]_vars /\ WF_vars(SynthReports)

(* Listening after a reply: utterances have just been dispatched by             *)
(* handleVoiceInput and the user says nothing more, text-to-speech is on;       *)
(* timers fire, time passes, the backend replies, the synthesizer reports, and  *)
(* a device that was asked to stop reports its end                              *)

InitListen ==
    /\ speechRecognition = "device"
    /\ isMuted = FALSE
    /\ ttsEnabled = TRUE
    /\ isListeningActive = FALSE
    /\ isSpeaking = FALSE
    /\ dev = "stopping"
    /\ voiceBuffer = <<>>
    /\ silenceTimeout = NoTimer
    /\ timers = EmptyBag
    /\ fetches \in 1..MaxInFlight
    /\ synth = <<>>
    /\ cancelled = 0
    /\ indicator = "processing"
    /\ shown = <<>>
    /\ chatLog = <<[text |-> <<"h", "i", " ", "o", "k">>, isUser |-> TRUE]>>
    /\ arrived = <<>>
    /\ noSpeechAge = NoAge
    /\ noSpeechNoted = FALSE
    /\ terminalErr = FALSE
    /\ mutedMid = FALSE
    /\ unmutedSpeaking = FALSE
    /\ starts = NoCount
    /\ voiceSent = NoCount
    /\ sendPc = "idle"
    /\ retryCount = 0
    /\ backoff = 0
    /\ requests = 0
    /\ sendLog = <<>>
    /\ typing = FALSE
    /\ sendChat = <<>>
    /\ sendNotes = <<>>
    /\ TasksIdle
    /\ FixIdle

NextListen ==
    \/ DeviceError
    \/ DeviceEnd
    \/ TimerFire
    \/ UserToggleMute
    \/ VoiceReply
    \/ SynthStart
    \/ SynthEnd
    \/ SynthError
    \/ Tick

\* the end event of a device that was asked to stop
DeviceStopped == dev = "stopping" /\ DeviceEnd

\* what the page's event loop, the backend and the synthesizer owe the session
Scheduled == TimerFire \/ Tick \/ VoiceReply \/ SynthEnd \/ SynthError

FairSpecListen ==
    /\ InitListen
    /\ [][NextListen]_vars
    /\ WF_vars(Scheduled)
    /\ SF_vars(DeviceStopped)

----------------------------------------------------------------------------
----------------------------------------------------------------------------
(* Properties *)

\* the step in which the silence timer fires and processVoiceBuffer runs
Flush == silenceTimeout = 0 /\ silenceTimeout' = NoTimer

UserMessage(text) == [text |-> text, isUser |-> TRUE]

\* C1: the final transcripts that reach processFinalTranscript before the silence
\* timer fires are dispatched as one utterance when it fires, and its text is
\* their texts joined by single spaces in arrival order (for a combined text that
\* passes the acceptance test); no other step dispatches an utterance.
C1_OneUtteranceJoined ==
    [][ /\ (Flush /\ Len(JoinSpaces(arrived)) > 2)
            => /\ fetches' = fetches + 1
               /\ chatLog' = <<UserMessage(JoinSpaces(arrived))>>
               /\ voiceBuffer' = <<>>
        /\ ~Flush => fetches' <= fetches ]_vars

\* two fragments were batched and dispatched as "hi ok"
C1_Witness ==
    /\ chatLog = <<UserMessage(<<"h", "i", " ", "o", "k">>)>>
    /\ fetches > 0
    /\ voiceBuffer = <<>>

\* speechRecognition.start() succeeds in this step
DeviceStarts == dev # "running" /\ dev' = "running"

\* C2: the recognition device is started only while isMuted is false.
C2_StartOnlyUnmuted == [][DeviceStarts => ~isMuted]_vars

\* C3: the recognition device is not capturing while an utterance of the client
\* is playing (isSpeaking).
C3_NoCaptureWhileSpeaking == ~(isSpeaking /\ dev = "running")

\* a recognition result is processed in this step: a final transcript is
\* buffered, or an interim transcript is put on the indicator
ResultProcessed ==
    \/ Len(arrived') > Len(arrived)
    \/ indicator # "interim" /\ indicator' = "interim"

\* C4: no recognition result is processed while isSpeaking or isMuted.
C4_NoResultsWhileSuppressed == [][ResultProcessed => ~isSpeaking /\ ~isMuted]_vars

BotMessage(text) == [text |-> text, isUser |-> FALSE]

Failed(log) == \A i \in 1..Len(log) : log[i] # "success"

\* C5: one sendMessage call issues at most 3 requests, one per attempt; it stops
\* at the first attempt that succeeds and renders the reply; it surfaces a
\* failure (one bot message, one notification) only after 3 failed attempts,
\* and nothing before.
C5_BoundedRetry ==
    /\ requests <= 3
    /\ requests = Len(sendLog) + (IF sendPc = "fetch" THEN 1 ELSE 0)
    /\ \A i \in 1..Len(sendLog) :
           sendLog[i] = "success"
               => /\ i = Len(sendLog)
                  /\ sendPc = "idle"
                  /\ sendChat[Len(sendChat)] = BotMessage(ReplyText)
    /\ Failed(sendLog) /\ Len(sendLog) < 3
           => /\ sendNotes = <<>>
              /\ Len(sendChat) <= 1
              /\ (sendLog # <<>> => sendPc # "idle")
    /\ Failed(sendLog) /\ Len(sendLog) = 3
           => /\ sendPc = "idle"
              /\ Len(sendNotes) = 1
              /\ Len(sendChat) = 2
              /\ sendChat[2] = BotMessage(sendFailureText(sendLog[3]))

\* HTTP 500 twice, then the reply: the reply is rendered, nothing else was shown
C5_Witness ==
    /\ sendLog = <<"http5xx", "http5xx", "success">>
    /\ sendChat = <<UserMessage(<<"h", "i">>), BotMessage(ReplyText)>>
    /\ sendNotes = <<>>
    /\ requests = 3

Combined(buf) == Trim(JoinSpaces(Texts(buf)))

Silent == shown' = <<>> /\ chatLog' = <<>> /\ fetches' = fetches

TerminalNotes == {"Microphone access denied", "Microphone permission denied"}

ErrorNotes(log) == {i \in 1..Len(log) : log[i].type = "error"}

\* C8: a terminal device error sets isMuted and shows one error notification,
\* and the device is not started again until the user unmutes.
C8_TerminalErrorHalts ==
    [][ /\ (\E i \in 1..Len(shown') : shown'[i].msg \in TerminalNotes)
            => isMuted' /\ Cardinality(ErrorNotes(shown')) = 1
        /\ terminalErr => ~DeviceStarts ]_vars

\* C9: once isSpeaking is set it is cleared again: the utterance that set it
\* reports end or error, and either handler clears it.
C9_SpeakingEnds == isSpeaking ~> ~isSpeaking

\* the reply to a typed message is playing after a voice reply was handled
C9_Witness ==
    /\ isSpeaking
    /\ Len(synth) = 1
    /\ synth[1].started
    /\ synth[1].src = "text"
    /\ fetches < MaxInFlight

\* C10: at most one voice-triggered /api/chat request is in flight.
C10_OneVoiceRequest == fetches <= 1

\* C11: the device is restarted automatically at most maxRestartAttempts times in
\* a row with no recognition result in between: counting the start the run of
\* restarts follows, at most maxRestartAttempts + 1 starts.
C11_BoundedRestarts == starts <= maxRestartAttempts + 1

\* C12: a silence timer pending when the user mutes does not fire
\* processVoiceBuffer: while the session is muted by the user the firing of the
\* silence timer dispatches no utterance to /api/chat.
C12_MuteCancelsUtterance ==
    [][(isMuted /\ ~terminalErr /\ Flush) => fetches' <= fetches]_vars

\* C13: after the user muted while a voice exchange was in flight or its reply
\* was being spoken, the recognition device is not started until the user
\* unmutes.
C13_MutedMidExchangeStays == [][mutedMid => ~DeviceStarts]_vars

\* C14: when the user unmutes while isSpeaking, the recognition device is not
\* started before isSpeaking is cleared.
C14_UnmuteWaitsForSpeech == [][unmutedSpeaking => ~DeviceStarts]_vars

\* C15: once the playback of a reply has ended or failed (isSpeaking cleared, no
\* utterance left) while isMuted is false, the recognition device is started
\* again, unless the session is muted first.
C15_ListeningResumes ==
    (~isSpeaking /\ synth = <<>> /\ ~isMuted) ~> (dev = "running" \/ isMuted)

\* the playback of a voice reply has ended, the session is not muted and the
\* device, stopped for the exchange, has reported its end and is not running yet
C15_Witness ==
    /\ indicator = "speaking"
    /\ ~isSpeaking
    /\ synth = <<>>
    /\ ~isMuted
    /\ dev = "idle"
    /\ fetches = 0

\* C16: at most one utterance is playing or queued in the speech-synthesis
\* device: a speak call, from speakText or from speakTextWithEmotion, cancels
\* the utterance that is in flight.
C16_OneUtterance == Len(synth) <= 1

\* sendMessage has given up: every attempt it was allowed has failed
Exhausted == sendPc = "idle" /\ Len(sendLog) = maxRetries /\ Failed(sendLog)

\* C17: when sendMessage gives up, it says 'Request timed out' only if every
\* attempt timed out, and it says 'Server is experiencing issues' when the
\* attempts failed with HTTP 5xx, whatever the sequence of outcomes was.
C17_FailureNamesOutcomes ==
    Exhausted =>
        /\ sendChat[Len(sendChat)] = BotMessage(sendFailureText("timeout"))
               => \A i \in 1..Len(sendLog) : sendLog[i] = "timeout"
        /\ (\A i \in 1..Len(sendLog) : sendLog[i] = "http5xx")
               => sendChat[Len(sendChat)] = BotMessage(sendFailureText("http5xx"))

VoiceFailureNotes == {"Chat failed", "Voice chat failed"}

\* the step shows the failure of a voice-triggered exchange
VoiceFailureSurfaced == \E i \in 1..Len(shown') : shown'[i].msg \in VoiceFailureNotes

\* C18: a voice utterance gets the bounded retry of a typed message: the failure
\* of its exchange is shown only after maxRetries requests have been issued for it.
C18_VoiceRetried == [][VoiceFailureSurfaced => voiceSent >= maxRetries]_vars

\* the last step showed the failure of a voice-triggered exchange
VoiceFailed == \E i \in 1..Len(shown) : shown[i].msg \in VoiceFailureNotes

\* C19: after a voice-triggered exchange fails the 'Processing' indicator is
\* cleared and one error notification is shown, and if the session is not muted
\* the device is eventually running again.
C19_FailureNotFatal ==
    /\ [](VoiceFailed => indicator # "processing" /\ Cardinality(ErrorNotes(shown)) = 1)
    /\ (VoiceFailed /\ ~isMuted) ~> (dev = "running" \/ isMuted)

\* the exchange has just failed while the device, stopped for it, is not running
C19_Witness ==
    /\ VoiceFailed
    /\ ~isMuted
    /\ indicator = "ready"
    /\ dev # "running"
    /\ fetches = 0

\* C20: processVoiceBuffer called with an empty voiceBuffer dispatches nothing,
\* shows nothing and changes no field of the application; so of two calls in a
\* row the second never dispatches, and the two dispatch at most once.
C20_EmptyFlushIdle ==
    /\ [](fetches <= 1)
    /\ [][voiceBuffer = <<>> =>
            /\ fetches' = fetches
            /\ chatLog' = <<>>
            /\ shown' = <<>>
            /\ UNCHANGED <<speechRecognition, isMuted, isListeningActive, isSpeaking,
                           ttsEnabled, dev, voiceBuffer, timers, synth, cancelled,
                           indicator>>]_vars

\* the first call dispatched the utterance and a second call has run since
C20_Witness ==
    /\ fetches = 1
    /\ voiceBuffer = <<>>
    /\ silenceTimeout = NoTimer
    /\ chatLog = <<>>
    /\ indicator = "processing"

\* the auto-start timer of init fires in this step
InitFires ==
    /\ Timer("init", 0) \in Due
    /\ timers' = timers (-) SetToBag({Timer("init", 0)})

\* C21: starting the voice session on a platform without speech recognition
\* fails visibly: the failure is shown to the user, the device is not started
\* and the session is not listening.
C21_UnavailableReported ==
    [][(speechRecognition = "none" /\ ~isMuted /\ InitFires)
           => /\ ErrorNotes(shown') # {}
              /\ dev' = "idle"
              /\ ~isListeningActive']_vars

\* the notifications of a log that tell of a failure
FailureNotes(log) == {i \in 1..Len(log) : log[i].type \in {"error", "warning"}}

\* the continuation of request r runs in this step
Handled(r) == r \in inflight /\ r.state = "answered" /\ r \notin inflight'

\* C22: an operation on an endpoint other than /api/chat whose reply is a
\* failure (success false, or an exception) shows the failure to the user
\* exactly once and does not issue the request again.
C22_FailureSurfacedOnce ==
    [][\A r \in inflight :
           Handled(r) /\ r.outcome # "ok"
               => /\ Cardinality(FailureNotes(opShown')) = 1
                  /\ \A q \in inflight' \ inflight : q.op # r.op]_vars

\* an event with interim results only is processed in this step: its
\* transcript is put on the listening indicator
InterimShown == indicator # "interim" /\ indicator' = "interim"

\* C23: an event with interim results only changes no batcher state: the
\* buffer, the pending silence timer and the record of the final transcripts
\* stay as they are, nothing is dispatched or shown, only the indicator changes.
C23_InterimChangesNothing ==
    [][InterimShown =>
           /\ UNCHANGED <<voiceBuffer, silenceTimeout, arrived, isListeningActive, dev,
                          fetches, timers, isMuted, isSpeaking, synth>>
           /\ chatLog' = <<>>
           /\ shown' = <<>>]_vars

\* an interim result is on the indicator while a fragment is buffered and its
\* silence timer has half a second left
C23_Witness ==
    /\ indicator = "interim"
    /\ Len(voiceBuffer) = 1
    /\ silenceTimeout = 1

StartThrew == \E i \in 1..Len(shown') : shown'[i].msg = "Could not start microphone"

\* C25: start() is never called on a device that is running or has not yet
\* reported its end: the catch branch of startContinuousListening never runs.
C25_NoStartWhileBusy == [][~StartThrew]_vars

\* C26: isSpeaking is true in every state in which an utterance started by
\* speakText is playing, also after the utterance it cancelled has reported.
C26_SpeakingWhilePlaying ==
    (synth # <<>> /\ synth[1].src = "text" /\ synth[1].started) => isSpeaking

\* the user messages among the chat messages of a log
UserMessages(log) == {i \in 1..Len(log) : log[i].isUser}

\* C27: a sendMessage call with a non-empty trimmed message appends exactly one
\* user message and, by the time it returns, exactly one bot message (the reply
\* on success, one error text on exhaustion), and its placeholder is gone; a
\* call with an empty or whitespace-only message issues no request and appends
\* nothing.
C27_OneUserOneBotMessage ==
    /\ sendPc # "idle" =>
           /\ Cardinality(UserMessages(sendChat)) = 1
           /\ Len(sendChat) = 1
    /\ sendPc = "idle" /\ sendLog # <<>> =>
           /\ Len(sendChat) = 2
           /\ UserMessages(sendChat) = {1}
           /\ sendChat[2].text =
                  (IF sendLog[Len(sendLog)] = "success" THEN ReplyText
                   ELSE sendFailureText(sendLog[Len(sendLog)]))
           /\ ~typing
    /\ sendPc = "idle" /\ sendLog = <<>> =>
           /\ requests = 0
           /\ sendChat = <<>>
           /\ ~typing

\* the call has returned after a reply without a response text, a timeout and
\* a network error
C27_Witness ==
    /\ sendPc = "idle"
    /\ sendLog = <<"malformed", "timeout", "network">>
    /\ Len(sendChat) = 2
    /\ ~typing

\* the number of times task t occurs in list ts
Occurrences(ts, t) == Cardinality({i \in 1..Len(ts) : ts[i] = t})

\* two task lists hold the same tasks the same number of times, in any order
SameTasks(a, b) ==
    \A t \in {a[i] : i \in 1..Len(a)} \cup {b[i] : i \in 1..Len(b)} :
        Occurrences(a, t) = Occurrences(b, t)

\* C28: once every task request has completed, the tasks list of the page
\* holds the tasks of the backend's list, whatever the order in which the
\* replies arrived: a stale loadTasks reply drops no task added and restores no
\* task deleted in the meantime.
C28_TasksInSync == inflight = {} => SameTasks(tasks, backend)

\* the entries of ts before position i whose id is id
Before(ts, i, id) == Cardinality({j \in 1..(i - 1) : ts[j].id = id})

\* list b is list a without the entries of that id, the others in their order
Removed(a, b, id) ==
    /\ Len(b) = Len(a) - Before(a, Len(a) + 1, id)
    /\ \A i \in 1..Len(a) : a[i].id # id => b[i - Before(a, i, id)] = a[i]

\* list b is list a with task t in the place of the first entry of that id
Replaced(a, b, id, t) ==
    /\ Len(b) = Len(a)
    /\ \A i \in 1..Len(a) :
           b[i] = (IF a[i].id = id /\ Before(a, i, id) = 0 THEN t ELSE a[i])

\* C29: deleteTask with a success reply removes exactly the entries of that id
\* and keeps the others in their order; completeTask with a success reply
\* replaces only the entry at the index of the id; on success false, on an
\* exception, on a declined confirmation and for an id that is not in the
\* list, tasks is unchanged.
C29_OnlyThatTask ==
    [][/\ \A r \in inflight :
             Handled(r) /\ r.op \in {"deleteTask", "completeTask"} =>
                 IF r.outcome # "ok" THEN tasks' = tasks
                 ELSE IF r.op = "deleteTask" THEN Removed(tasks, tasks', r.id)
                 ELSE IF r.id \in Ids(tasks) THEN Replaced(tasks, tasks', r.id, Task(r.id, TRUE))
                 ELSE tasks' = tasks
       /\ tasks' # tasks => \E r \in inflight : Handled(r) /\ r.outcome = "ok"]_vars

\* tasks 1 and 2 were created and rendered, the delete of task 1 has just
\* succeeded and task 2 is what the page still lists
C29_Witness ==
    /\ tasks = <<Task(2, FALSE)>>
    /\ backend = <<Task(2, FALSE)>>
    /\ opShown = <<Note("done", "success")>>
    /\ inflight = {}

\* the restart timer of recognition.onend starts the device in this step
Restarted == restartTimers' < restartTimers /\ recDev = "idle" /\ recDev' = "starting"

\* the device reports its end in this step
Ended == recDev # "idle" /\ recDev' = "idle"

(* C30: once stopSpeechRecognition() has run, neither recognition.onend nor *)
(* its restart timer starts the device again (until the user presses the    *)
(* button to start); an end event while isListening is true sets the        *)
(* restart timer, whose callback starts the device if isListening still     *)
(* holds; the end event that follows an error event sets no restart timer.  *)
C30_RestartOnlyWhileListening ==
    /\ [][stoppedSince => ~Restarted]_vars
    /\ [][(Ended /\ isListening) => restartTimers' = restartTimers + 1]_vars
    /\ [][(restartTimers' < restartTimers /\ isListening /\ recDev = "idle") => recDev' = "starting"]_vars
    /\ [][(Ended /\ erroredSince) => restartTimers' = restartTimers]_vars

====
